---- MODULE Spec2Model ----
(***************************************************************************)
(* Hand-gesture classification (HandDetector.detect_gesture), the gesture  *)
(* session (HandDetector.determine_gesture) and the cursor smoothing       *)
(* filter (KalmanFilter.predict) of src/hands.py.                          *)
(*                                                                         *)
(* Numbers.  A landmark is <<idx, x, y>> with integer pixel coordinates.   *)
(* A cosine dot/(|u|*|v|) is kept exactly as the pair (dot, |u|^2*|v|^2)   *)
(* and compared with a threshold given in tenths (0.70 is 7), so no root   *)
(* is taken; the comparison is exact, where the code's floats could differ *)
(* only for a cosine that equals the threshold.  The filter's float32      *)
(* matrices are kept in fixed point: covariances and gains in 1/10000, the *)
(* state in 1/100 pixel.                                                   *)
(***************************************************************************)
EXTENDS Integers, Sequences, FiniteSets, TLC

VARIABLES
  results,        \* self.results: "unset", or the landmark list mediapipe found (<<>>: no hand)
  prev_position,  \* self.prev_position: None, or <<r, c>>
  kf,             \* kf_tracker.kf: the cv.KalmanFilter's matrices
  smooth,         \* (smooth_x, smooth_y) of the last circle drawn by detect_hands
  post,           \* the dictionary the last determine_gesture call returned
  outcome,        \* how the last determine_gesture call ended
  frames,         \* the landmark list of every determine_gesture call so far
  landmarks,      \* detect_gesture's argument (direct call)
  threshhold,     \* detect_gesture's argument, in tenths
  debug,          \* detect_gesture's argument
  ret,            \* what the direct detect_gesture call returned or raised
  point,          \* the constant point fed to KalmanFilter.predict
  calls,          \* number of consecutive predict calls made
  predicted       \* what the last predict call returned

vars == <<results, prev_position, kf, smooth, post, outcome, frames,
          landmarks, threshhold, debug, ret, point, calls, predicted>>

\* Python's None, and the empty dictionary {}
None == <<>>
EmptyDict == <<>>

(***************************************************************************)
(* detect_gesture: vectors and cosines                                     *)
(***************************************************************************)

\* landmarks[i] of the Python list (0-based)
At(l, i) == l[i + 1]

\* vectorize = lambda u, v: [v[i] - u[i] for i in range(len(v))]
\* u and v are whole landmarks [idx, x, y]: the index difference is a component.
vectorize(u, v) == [i \in 1..Len(v) |-> v[i] - u[i]]

\* sum of f[1..n]
RECURSIVE SumTo(_, _)
SumTo(f, n) == IF n = 0 THEN 0 ELSE f[n] + SumTo(f, n - 1)

\* np.dot(u, v)
dot(u, v) == SumTo([i \in 1..Len(u) |-> u[i] * v[i]], Len(u))

\* vector_magnitude(vector) squared: sum(dim**2 for dim in vector)
magnitude2(vector) == SumTo([i \in 1..Len(vector) |-> vector[i] * vector[i]], Len(vector))

\* cos_angle(u, v) = np.dot(u, v) / (vector_magnitude(u) * vector_magnitude(v)),
\* kept as numerator and squared denominator; den2 = 0 is the division by zero
\* (numpy yields nan, and every comparison with nan is false).
cos_angle(u, v) == [num |-> dot(u, v), den2 |-> magnitude2(u) * magnitude2(v)]

IsNan(c) == c.den2 = 0

\* c > t/10, for t in 0..10
Gt(c, t) == /\ ~IsNan(c)
            /\ c.num > 0
            /\ 100 * c.num * c.num > t * t * c.den2

\* c < 0
Lt0(c) == ~IsNan(c) /\ c.num < 0

\* the landmark indices detect_gesture reads (lines 97-114)
UsedLandmarks == {0, 1, 4, 5, 6, 8, 9, 10, 12, 13, 14, 16, 17, 18, 20}

\* lines 102-114: the palm vectors and the finger vectors
Vectors(l) ==
  [ palm_index_vector |-> vectorize(At(l, 0), At(l, 5)),
    palm_mid_vector   |-> vectorize(At(l, 0), At(l, 9)),
    palm_ring_vector  |-> vectorize(At(l, 0), At(l, 13)),
    palm_pinky_vector |-> vectorize(At(l, 0), At(l, 17)),
    palm_thumb_vector |-> vectorize(At(l, 0), At(l, 4)),
    index_vector      |-> vectorize(At(l, 6), At(l, 8)),
    middle_vector     |-> vectorize(At(l, 10), At(l, 12)),
    ring_vector       |-> vectorize(At(l, 14), At(l, 16)),
    pinky_vector      |-> vectorize(At(l, 18), At(l, 20)),
    thumb_vector      |-> vectorize(At(l, 1), At(l, 4)) ]

\* faulty variant: the ERASE test moved in front of the SHAPE_LAUNCH test
RulesEraseFirst(v, t) ==
  IF /\ Gt(cos_angle(v.palm_index_vector, v.index_vector), t)
     /\ Lt0(cos_angle(v.index_vector, v.middle_vector))
     /\ Lt0(cos_angle(v.index_vector, v.ring_vector))
     /\ Lt0(cos_angle(v.index_vector, v.pinky_vector))
  THEN "DRAW"
  ELSE IF /\ Gt(cos_angle(v.palm_index_vector, v.index_vector), t)
          /\ Gt(cos_angle(v.index_vector, v.middle_vector), 9)
          /\ Gt(cos_angle(v.index_vector, v.ring_vector), 9)
          /\ Lt0(cos_angle(v.palm_pinky_vector, v.pinky_vector))
  THEN "ERASE"
  ELSE IF /\ Gt(cos_angle(v.palm_index_vector, v.index_vector), t)
          /\ Gt(cos_angle(v.palm_thumb_vector, v.thumb_vector), t)
          /\ Gt(cos_angle(v.palm_mid_vector, v.middle_vector), t)
          /\ Lt0(cos_angle(v.palm_ring_vector, v.ring_vector))
          /\ Lt0(cos_angle(v.palm_pinky_vector, v.pinky_vector))
  THEN "SHAPE_LAUNCH"
  ELSE IF /\ Gt(cos_angle(v.palm_index_vector, v.index_vector), t)
          /\ Gt(cos_angle(v.index_vector, v.middle_vector), 8)
          /\ Lt0(cos_angle(v.index_vector, v.ring_vector))
          /\ Lt0(cos_angle(v.index_vector, v.pinky_vector))
  THEN "SCREENSHOT"
  ELSE IF /\ Gt(cos_angle(v.palm_index_vector, v.index_vector), t)
          /\ Gt(cos_angle(v.palm_mid_vector, v.middle_vector), t)
          /\ Lt0(cos_angle(v.index_vector, v.ring_vector))
          /\ Lt0(cos_angle(v.index_vector, v.pinky_vector))
  THEN "HOVER"
  ELSE IF /\ Gt(cos_angle(v.palm_index_vector, v.index_vector), t)
          /\ Gt(cos_angle(v.palm_pinky_vector, v.pinky_vector), t)
          /\ Lt0(cos_angle(v.index_vector, v.middle_vector))
          /\ Lt0(cos_angle(v.index_vector, v.ring_vector))
  THEN "MOVE"
  ELSE IF /\ Gt(cos_angle(v.palm_index_vector, v.index_vector), t)
          /\ Gt(cos_angle(v.index_vector, v.middle_vector), 0)
          /\ Lt0(cos_angle(v.index_vector, v.ring_vector))
          /\ Lt0(cos_angle(v.index_vector, v.pinky_vector))
  THEN "MATH_LAUNCH"
  ELSE "HOVER"

\* lines 123-177: the cascade of tests, in the order of the code
Rules(v, t) ==
  IF /\ Gt(cos_angle(v.palm_index_vector, v.index_vector), t)
     /\ Lt0(cos_angle(v.index_vector, v.middle_vector))
     /\ Lt0(cos_angle(v.index_vector, v.ring_vector))
     /\ Lt0(cos_angle(v.index_vector, v.pinky_vector))
  THEN "DRAW"
  ELSE IF /\ Gt(cos_angle(v.palm_index_vector, v.index_vector), t)
          /\ Gt(cos_angle(v.palm_thumb_vector, v.thumb_vector), t)
          /\ Gt(cos_angle(v.palm_mid_vector, v.middle_vector), t)
          /\ Lt0(cos_angle(v.palm_ring_vector, v.ring_vector))
          /\ Lt0(cos_angle(v.palm_pinky_vector, v.pinky_vector))
  THEN "SHAPE_LAUNCH"
  ELSE IF /\ Gt(cos_angle(v.palm_index_vector, v.index_vector), t)
          /\ Gt(cos_angle(v.index_vector, v.middle_vector), 8)
          /\ Lt0(cos_angle(v.index_vector, v.ring_vector))
          /\ Lt0(cos_angle(v.index_vector, v.pinky_vector))
  THEN "SCREENSHOT"
  ELSE IF /\ Gt(cos_angle(v.palm_index_vector, v.index_vector), t)
          /\ Gt(cos_angle(v.palm_mid_vector, v.middle_vector), t)
          /\ Lt0(cos_angle(v.index_vector, v.ring_vector))
          /\ Lt0(cos_angle(v.index_vector, v.pinky_vector))
  THEN "HOVER"
  ELSE IF /\ Gt(cos_angle(v.palm_index_vector, v.index_vector), t)
          /\ Gt(cos_angle(v.index_vector, v.middle_vector), 9)
          /\ Gt(cos_angle(v.index_vector, v.ring_vector), 9)
          /\ Lt0(cos_angle(v.palm_pinky_vector, v.pinky_vector))
  THEN "ERASE"
  ELSE IF /\ Gt(cos_angle(v.palm_index_vector, v.index_vector), t)
          /\ Gt(cos_angle(v.palm_pinky_vector, v.pinky_vector), t)
          /\ Lt0(cos_angle(v.index_vector, v.middle_vector))
          /\ Lt0(cos_angle(v.index_vector, v.ring_vector))
  THEN "MOVE"
  ELSE IF /\ Gt(cos_angle(v.palm_index_vector, v.index_vector), t)
          /\ Gt(cos_angle(v.index_vector, v.middle_vector), 0)
          /\ Lt0(cos_angle(v.index_vector, v.ring_vector))
          /\ Lt0(cos_angle(v.index_vector, v.pinky_vector))
  THEN "MATH_LAUNCH"
  ELSE "HOVER"

\* what a call returns: a label, the debug cosine, or an exception
Label(g)   == [kind |-> "label", label |-> g]
Cosine(c)  == [kind |-> "cosine", cos |-> c]
Raise(e)   == [kind |-> "raise", error |-> e]

\* detect_gesture(self, landmarks, threshhold=0.70, debug=False), lines 85-177.
\* Every landmark the function reads is read before the debug test and before
\* the first rule, so a list too short for one of them raises IndexError.
detect_gesture(l, t, dbg) ==
  IF \E i \in UsedLandmarks : i >= Len(l)
  THEN Raise("IndexError")
  ELSE IF dbg
       THEN Cosine(cos_angle(Vectors(l).index_vector, Vectors(l).palm_index_vector))
       ELSE Label(Rules(Vectors(l), t))

\* threshhold=0.70, in tenths
DefaultThreshhold == 7


(***************************************************************************)
(* Inputs of a direct detect_gesture call                                  *)
(***************************************************************************)

\* lists may be up to this much longer than the 21 landmarks of a hand
MaxExtra == 1

Plus(a, b) == <<a[1] + b[1], a[2] + b[2]>>

Wrist == <<60, 120>>

\* wrist-to-knuckle offsets of landmarks 5, 9, 13, 17: an open hand, and a hand
\* whose ring and pinky knuckles lie on the other side of the wrist
PalmSet ==
  { [i \in {5, 9, 13, 17} |->
       CASE i = 5 -> <<-15, -40>> [] i = 9 -> <<-5, -42>>
         [] i = 13 -> <<5, -40>>  [] i = 17 -> <<15, -35>>],
    [i \in {5, 9, 13, 17} |->
       CASE i = 5 -> <<-15, -40>> [] i = 9 -> <<-5, -42>>
         [] i = 13 -> <<5, 40>>   [] i = 17 -> <<15, 35>>] }

\* wrist-to-landmark offsets of the thumb: landmark 1 and landmark 4
ThumbSet == { [base |-> <<-10, -5>>, tip |-> <<-40, -20>>],
              [base |-> <<-40, -20>>, tip |-> <<-10, -5>>] }

\* joint-to-tip (x,y) offsets of a finger; <<0, 0>> is a tip on its joint
Dirs == { <<0, -30>>, <<0, 30>>, <<30, 0>>, <<-30, 0>>, <<0, 0>>,
          <<0, 1>>, <<0, -2>>, <<30, -5>>, <<-20, -24>> }

UpDown == { <<0, -30>>, <<0, 30>> }

\* pixel position of landmark i of the hand with palm P, thumb T and finger
\* offsets d (indexed by knuckle)
HandXY(P, T, d, i) ==
  CASE i = 0 -> Wrist
    [] i \in {1, 2} -> Plus(Wrist, T.base)
    [] i \in {3, 4} -> Plus(Wrist, T.tip)
    [] i \in {5, 9, 13, 17} -> Plus(Wrist, P[i])
    [] i \in {6, 10, 14, 18} -> Plus(Plus(Wrist, P[i - 1]), <<0, -10>>)
    [] i \in {7, 11, 15, 19} -> Plus(Plus(Wrist, P[i - 2]), <<0, -10>>)
    [] i \in {8, 12, 16, 20} -> Plus(Plus(Plus(Wrist, P[i - 3]), <<0, -10>>), d[i - 3])

\* detect_landmarks, lines 75-83: landmarks.append([idx, x, y]) for each of
\* the hand's points, in pixels
LandmarkList(xy, n) == [i \in 1..n |-> <<i - 1, xy[i][1], xy[i][2]>>]

Hand(P, T, d) == LandmarkList([i \in 1..21 |-> HandXY(P, T, d, i - 1)], 21)

\* a list cut to n entries, or padded to n entries with further points
Resize(l, n) == [i \in 1..n |-> IF i <= Len(l) THEN l[i] ELSE <<i - 1, 0, 0>>]

Thresholds == {5, DefaultThreshhold, 9}

Pending == [kind |-> "pending"]


(***************************************************************************)
(* KalmanFilter: cv.KalmanFilter(4, 2) in fixed point                      *)
(***************************************************************************)

\* one unit of a covariance or gain entry is 1/CovScale
CovScale == 10000
\* one unit of a state entry is 1/StateScale pixel
StateScale == 100

Zeros(n, m) == [i \in 1..n |-> [j \in 1..m |-> 0]]
Eye(n, d)   == [i \in 1..n |-> [j \in 1..n |-> IF i = j THEN d ELSE 0]]

Rows(A) == Len(A)
Cols(A) == Len(A[1])

\* sum over k in 1..n of A[i][k] * B[k][j]
RECURSIVE RowByCol(_, _, _, _, _)
RowByCol(A, B, i, j, n) ==
  IF n = 0 THEN 0 ELSE A[i][n] * B[n][j] + RowByCol(A, B, i, j, n - 1)

MatMul(A, B) ==
  [i \in 1..Rows(A) |-> [j \in 1..Cols(B) |-> RowByCol(A, B, i, j, Cols(A))]]
Transpose(A) == [j \in 1..Cols(A) |-> [i \in 1..Rows(A) |-> A[i][j]]]
MatAdd(A, B) == [i \in 1..Rows(A) |-> [j \in 1..Cols(A) |-> A[i][j] + B[i][j]]]
MatSub(A, B) == [i \in 1..Rows(A) |-> [j \in 1..Cols(A) |-> A[i][j] - B[i][j]]]

\* a / b rounded to the nearest integer, b > 0
RDiv(a, b) == (2 * a + b) \div (2 * b)
Rescale(A, s) == [i \in 1..Rows(A) |-> [j \in 1..Cols(A) |-> RDiv(A[i][j], s)]]

\* int(x) of a float kept in 1/s: truncation toward zero
Trunc(a, s) == IF a >= 0 THEN a \div s ELSE -((-a) \div s)

\* inverse of a 2x2 matrix whose entries are in 1/CovScale
Inv2(M) ==
  LET det == RDiv(M[1][1] * M[2][2] - M[1][2] * M[2][1], CovScale)
  IN << << RDiv(M[2][2] * CovScale, det), RDiv(-M[1][2] * CovScale, det) >>,
        << RDiv(-M[2][1] * CovScale, det), RDiv(M[1][1] * CovScale, det) >> >>

\* line 8
measurementMatrix == << <<1, 0, 0, 0>>, <<0, 1, 0, 0>> >>
\* line 9
transitionMatrix == << <<1, 0, 1, 0>>, <<0, 1, 0, 1>>, <<0, 0, 1, 0>>, <<0, 0, 0, 1>> >>
\* faulty variant: a process noise of 0.0003
processNoiseCovSmall == Eye(4, 3)

\* line 10: np.eye(4) * 0.03
processNoiseCov == Eye(4, 300)
\* left at cv.KalmanFilter's default, the identity
measurementNoiseCov == Eye(2, CovScale)

\* KalmanFilter.__init__, lines 6-10: cv.KalmanFilter(4, 2) starts with every
\* state and error-covariance matrix zero
NewKalmanFilter ==
  [ statePre |-> Zeros(4, 1), statePost |-> Zeros(4, 1),
    errorCovPre |-> Zeros(4, 4), errorCovPost |-> Zeros(4, 4),
    gain |-> Zeros(4, 2) ]

\* self.kf.correct(measured), line 14
cv_correct(k, measured) ==
  LET temp2 == MatMul(measurementMatrix, k.errorCovPre)
      temp3 == MatAdd(MatMul(temp2, Transpose(measurementMatrix)), measurementNoiseCov)
      temp4 == Rescale(MatMul(Inv2(temp3), temp2), CovScale)
      gain  == Transpose(temp4)
      temp5 == MatSub(measured, MatMul(measurementMatrix, k.statePre))
  IN [ k EXCEPT !.gain = gain,
                !.statePost = MatAdd(k.statePre, Rescale(MatMul(gain, temp5), CovScale)),
                !.errorCovPost = MatSub(k.errorCovPre, Rescale(MatMul(gain, temp2), CovScale)) ]

\* self.kf.predict(), line 15
cv_predict(k) ==
  LET statePre == MatMul(transitionMatrix, k.statePost)
      errorCovPre == MatAdd(MatMul(MatMul(transitionMatrix, k.errorCovPost),
                                   Transpose(transitionMatrix)), processNoiseCov)
  IN [ k EXCEPT !.statePre = statePre, !.statePost = statePre,
                !.errorCovPre = errorCovPre, !.errorCovPost = errorCovPre ]

\* KalmanFilter.predict(coordX, coordY), lines 12-16: the filter after the
\* call and the pair it returns
predict(k, coordX, coordY) ==
  LET measured == << <<coordX * StateScale>>, <<coordY * StateScale>> >>
      after == cv_predict(cv_correct(k, measured))
  IN [ kf |-> after,
       ret |-> << Trunc(after.statePre[1][1], StateScale),
                  Trunc(after.statePre[2][1], StateScale) >> ]


(***************************************************************************)
(* HandDetector: one determine_gesture call per frame                      *)
(***************************************************************************)

\* determine_gesture is called at most this many times
MaxFrames == 3

\* self.results before the first hands.process call, and after one
Unset == [set |-> FALSE]
Results(l) == [set |-> TRUE, multi_hand_landmarks |-> l]

\* a frame: no image (img is None), or an image in which mediapipe finds the
\* landmark list hand (<<>>: no hand)
NoImage == [image |-> FALSE]
Image(l) == [image |-> TRUE, hand |-> l]

\* faulty variant: the filter is fed the last drawn position when no hand is found
detect_hands_always_filter(img, res, k, sm) ==
  IF ~img.image
  THEN [results |-> res, kf |-> k, smooth |-> sm]
  ELSE LET at == IF Len(img.hand) # 0
                 THEN <<At(img.hand, 8)[2], At(img.hand, 8)[3]>> ELSE sm
           p == predict(k, at[1], at[2])
       IN [results |-> Results(img.hand), kf |-> p.kf, smooth |-> p.ret]

\* detect_hands(img, bg, draw=True), lines 44-62: what the call leaves in
\* self.results, in the filter and on the screen
detect_hands(img, res, k, sm) ==
  IF ~img.image
  THEN [results |-> res, kf |-> k, smooth |-> sm]
  ELSE IF Len(img.hand) # 0
       THEN LET index_finger == At(img.hand, 8)
                p == predict(k, index_finger[2], index_finger[3])
            IN [results |-> Results(img.hand), kf |-> p.kf, smooth |-> p.ret]
       ELSE [results |-> Results(img.hand), kf |-> k, smooth |-> sm]

\* detect_landmarks(shape), lines 75-83
detect_landmarks(res) == res.multi_hand_landmarks

\* faulty variant: the whole landmark [idx, x, y]
whole(lm) == lm

\* idx_finger[1:], lines 205 and 212
xy(lm) == <<lm[2], lm[3]>>

\* euclidean_dist = lambda a1, a2: sum([(x-y)**2 for x, y in zip(a1, a2)])**.5
\* kept as the number under the root
euclidean_dist(a1, a2) ==
  [root_of |-> SumTo([i \in 1..Len(a1) |-> (a1[i] - a2[i]) * (a1[i] - a2[i])], Len(a1))]

\* faulty variant: the shift taken as (column, row)
shift_swapped(idx_finger, prev) ==
  LET c == idx_finger[2]
      r == idx_finger[3]
      seeded == IF prev = None THEN <<r, c>> ELSE prev
  IN <<c - seeded[2], r - seeded[1]>>

\* faulty variant: a missing previous position read as the origin
shift_unseeded(idx_finger, prev) ==
  LET c == idx_finger[2]
      r == idx_finger[3]
      seeded == IF prev = None THEN <<0, 0>> ELSE prev
  IN <<r - seeded[1], c - seeded[2]>>

\* lines 215-221: _, c, r = idx_finger; prev_position seeded when None;
\* shift = (r - prev_position[0], c - prev_position[1])
shift(idx_finger, prev) ==
  LET c == idx_finger[2]
      r == idx_finger[3]
      seeded == IF prev = None THEN <<r, c>> ELSE prev
  IN <<r - seeded[1], c - seeded[2]>>

\* lines 195-222: the dictionary built for a frame with a hand
Post(gesture, landmark_list, prev) ==
  LET idx_finger == At(landmark_list, 8)
      mid_fing == At(landmark_list, 12)
      pinky_finger == At(landmark_list, 20)
      base == [gesture |-> gesture, idx_fing_tip |-> idx_finger]
  IN IF gesture = "ERASE"
     THEN base @@ [mid_fing_tip |-> mid_fing,
                   idx_mid_radius |-> euclidean_dist(xy(idx_finger), xy(mid_fing))]
     ELSE IF gesture = "MOVE"
     THEN base @@ [idx_pinky_radius |-> euclidean_dist(xy(idx_finger), xy(pinky_finger)),
                   shift |-> shift(idx_finger, prev)]
     ELSE base

\* faulty variant: the previous position dropped when the hand is lost
prev_after_no_hand_reset(prev) == None

\* lines 190-192: return {} leaves self.prev_position as it is
prev_after_no_hand(prev) == prev

\* lines 226-227: _, c, r = idx_finger; self.prev_position = (r, c)
prev_after_hand(idx_finger) == <<idx_finger[3], idx_finger[2]>>

\* the hand poses of the frames: landmarks 1-4, 5-8, 9-12, 13-16, 17-20
WristPt     == << <<115, 180>> >>
ThumbPts    == << <<105, 175>>, <<100, 170>>, <<95, 165>>, <<90, 160>> >>
IndexOut    == << <<100, 140>>, <<100, 125>>, <<100, 112>>, <<100, 100>> >>
MiddleOut   == << <<110, 138>>, <<110, 122>>, <<110, 108>>, <<110, 96>> >>
MiddleIn    == << <<110, 138>>, <<110, 125>>, <<112, 130>>, <<110, 140>> >>
MiddleClose == << <<110, 138>>, <<103, 129>>, <<103, 116>>, <<103, 104>> >>
RingOut     == << <<120, 140>>, <<120, 125>>, <<120, 112>>, <<120, 100>> >>
RingIn      == << <<120, 140>>, <<120, 128>>, <<122, 133>>, <<120, 143>> >>
PinkyOut    == << <<130, 145>>, <<130, 132>>, <<130, 122>>, <<130, 112>> >>
PinkyIn     == << <<130, 145>>, <<130, 135>>, <<131, 140>>, <<130, 150>> >>

Pose(m, r, p) == WristPt \o ThumbPts \o IndexOut \o m \o r \o p

Poses == { Pose(MiddleIn, RingIn, PinkyOut),       \* index and pinky out
           Pose(MiddleIn, RingIn, PinkyIn),        \* index out
           Pose(MiddleClose, RingOut, PinkyIn),    \* index, middle, ring out
           Pose(MiddleOut, RingOut, PinkyOut) }    \* open hand

Offsets == { <<0, 0>>, <<10, -5>> }

FrameHand(pose, off) == LandmarkList([i \in 1..21 |-> Plus(pose[i], off)], 21)

\* every pose at two places, and the index-middle-ring pose with its index
\* tip at (50, 50)
FrameHands ==
  { FrameHand(pose, off) : pose \in Poses, off \in Offsets }
    \cup { FrameHand(Pose(MiddleClose, RingOut, PinkyIn), <<-50, -50>>) }

Frames == {NoImage} \cup {Image(l) : l \in FrameHands \cup {<<>>}}

\* what frames records of a call: whether detect_landmarks returned, and its list
Seen(l) == [detected |-> TRUE, landmark_list |-> l]
NotSeen == [detected |-> FALSE]

\* determine_gesture(frame, background), lines 179-229
determine_gesture(img) ==
  /\ Len(frames) < MaxFrames
  /\ \E seen \in {detect_hands(img, results, kf, smooth)} :
        /\ results' = seen.results
        /\ kf' = seen.kf
        /\ smooth' = seen.smooth
        /\ IF ~seen.results.set
           THEN \* detect_landmarks reads self.results, which was never assigned
                /\ outcome' = "AttributeError"
                /\ frames' = Append(frames, NotSeen)
                /\ UNCHANGED <<post, prev_position>>
           ELSE LET landmark_list == detect_landmarks(seen.results)
                    gesture == detect_gesture(landmark_list, DefaultThreshhold, FALSE)
                IN /\ frames' = Append(frames, Seen(landmark_list))
                   /\ IF Len(landmark_list) = 0
                      THEN /\ outcome' = "returned"
                           /\ post' = EmptyDict
                           /\ prev_position' = prev_after_no_hand(prev_position)
                      ELSE IF gesture.kind = "raise"
                      THEN /\ outcome' = gesture.error
                           /\ UNCHANGED <<post, prev_position>>
                      ELSE /\ outcome' = "returned"
                           /\ post' = Post(gesture.label, landmark_list, prev_position)
                           /\ prev_position' = prev_after_hand(At(landmark_list, 8))
  /\ UNCHANGED <<landmarks, threshhold, debug, ret, point, calls, predicted>>

Init ==
  /\ results = Unset
  /\ prev_position = None
  /\ kf = NewKalmanFilter
  /\ smooth = <<0, 0>>
  /\ post = EmptyDict
  /\ outcome = "none"
  /\ frames = <<>>
  /\ landmarks = <<>>
  /\ threshhold = DefaultThreshhold
  /\ debug = FALSE
  /\ ret = Pending
  /\ point = <<0, 0>>
  /\ calls = 0
  /\ predicted = <<0, 0>>

Next == \E img \in Frames : determine_gesture(img)

Spec == Init /\ [][Next]_vars

(***************************************************************************)
(* A direct detect_gesture call on one list                                *)
(***************************************************************************)

InitClassify ==
  /\ results = Unset
  /\ prev_position = None
  /\ kf = NewKalmanFilter
  /\ smooth = <<0, 0>>
  /\ post = EmptyDict
  /\ outcome = "none"
  /\ frames = <<>>
  /\ ret = Pending
  /\ point = <<0, 0>>
  /\ calls = 0
  /\ predicted = <<0, 0>>
  /\ \/ /\ debug = FALSE
        /\ threshhold \in Thresholds
        /\ \E P \in PalmSet, T \in ThumbSet :
             \E di \in Dirs, dm \in Dirs, dr \in Dirs, dp \in Dirs :
                landmarks = Hand(P, T, [i \in {5, 9, 13, 17} |->
                               CASE i = 5 -> di [] i = 9 -> dm [] i = 13 -> dr [] i = 17 -> dp])
     \/ /\ debug \in BOOLEAN
        /\ threshhold = DefaultThreshhold
        /\ \E P \in PalmSet, T \in ThumbSet, n \in 1..(21 + MaxExtra) :
             \E di \in UpDown, dm \in UpDown, dr \in UpDown, dp \in UpDown :
                landmarks = Resize(Hand(P, T, [i \in {5, 9, 13, 17} |->
                               CASE i = 5 -> di [] i = 9 -> dm [] i = 13 -> dr [] i = 17 -> dp]), n)

\* val = detector.detect_gesture(landmark_list, threshhold=...), as in main()
CallDetectGesture ==
  /\ ret = Pending
  /\ ret' = detect_gesture(landmarks, threshhold, debug)
  /\ UNCHANGED <<results, prev_position, kf, smooth, post, outcome, frames,
                 landmarks, threshhold, debug, point, calls, predicted>>

NextClassify == CallDetectGesture

SpecClassify == InitClassify /\ [][NextClassify]_vars

(***************************************************************************)
(* A fresh KalmanFilter fed one constant point                             *)
(***************************************************************************)

\* predict is called at most this many times in a row
MaxCalls == 20

Coords == {0, 1, 3, 4, 100, 640}

InitFilter ==
  /\ results = Unset
  /\ prev_position = None
  /\ kf = NewKalmanFilter
  /\ smooth = <<0, 0>>
  /\ post = EmptyDict
  /\ outcome = "none"
  /\ frames = <<>>
  /\ landmarks = <<>>
  /\ threshhold = DefaultThreshhold
  /\ debug = FALSE
  /\ ret = Pending
  /\ point \in Coords \X Coords
  /\ calls = 0
  /\ predicted = <<0, 0>>

\* smooth_x, smooth_y = kf_tracker.predict(finger_x, finger_y) with the same point
CallPredict ==
  /\ calls < MaxCalls
  /\ \E p \in {predict(kf, point[1], point[2])} :
        /\ kf' = p.kf
        /\ predicted' = p.ret
  /\ calls' = calls + 1
  /\ UNCHANGED <<results, prev_position, smooth, post, outcome, frames,
                 landmarks, threshhold, debug, ret, point>>

NextFilter == CallPredict

SpecFilter == InitFilter /\ [][NextFilter]_vars


(***************************************************************************)
(* Properties of detect_gesture (checked under SpecClassify)               *)
(***************************************************************************)

Called == ret.kind # "pending"

Cos(l, a, b) == cos_angle(Vectors(l)[a], Vectors(l)[b])

\* the rules as section 4.2 lists them: extended is "cosine above the
\* threshold", curled is "cosine below zero"
RuleHolds(rule, l, t) ==
  CASE rule = "DRAW" ->
         /\ Gt(Cos(l, "palm_index_vector", "index_vector"), t)
         /\ Lt0(Cos(l, "index_vector", "middle_vector"))
         /\ Lt0(Cos(l, "index_vector", "ring_vector"))
         /\ Lt0(Cos(l, "index_vector", "pinky_vector"))
    [] rule = "SHAPE_LAUNCH" ->
         /\ Gt(Cos(l, "palm_index_vector", "index_vector"), t)
         /\ Gt(Cos(l, "palm_thumb_vector", "thumb_vector"), t)
         /\ Gt(Cos(l, "palm_mid_vector", "middle_vector"), t)
         /\ Lt0(Cos(l, "palm_ring_vector", "ring_vector"))
         /\ Lt0(Cos(l, "palm_pinky_vector", "pinky_vector"))
    [] rule = "SCREENSHOT" ->
         /\ Gt(Cos(l, "palm_index_vector", "index_vector"), t)
         /\ Gt(Cos(l, "index_vector", "middle_vector"), 8)
         /\ Lt0(Cos(l, "index_vector", "ring_vector"))
         /\ Lt0(Cos(l, "index_vector", "pinky_vector"))
    [] rule = "HOVER" ->
         /\ Gt(Cos(l, "palm_index_vector", "index_vector"), t)
         /\ Gt(Cos(l, "palm_mid_vector", "middle_vector"), t)
         /\ Lt0(Cos(l, "index_vector", "ring_vector"))
         /\ Lt0(Cos(l, "index_vector", "pinky_vector"))
    [] rule = "ERASE" ->
         /\ Gt(Cos(l, "palm_index_vector", "index_vector"), t)
         /\ Gt(Cos(l, "index_vector", "middle_vector"), 9)
         /\ Gt(Cos(l, "index_vector", "ring_vector"), 9)
         /\ Lt0(Cos(l, "palm_pinky_vector", "pinky_vector"))
    [] rule = "MOVE" ->
         /\ Gt(Cos(l, "palm_index_vector", "index_vector"), t)
         /\ Gt(Cos(l, "palm_pinky_vector", "pinky_vector"), t)
         /\ Lt0(Cos(l, "index_vector", "middle_vector"))
         /\ Lt0(Cos(l, "index_vector", "ring_vector"))
    [] rule = "MATH_LAUNCH" ->
         /\ Gt(Cos(l, "palm_index_vector", "index_vector"), t)
         /\ Gt(Cos(l, "index_vector", "middle_vector"), 0)
         /\ Lt0(Cos(l, "index_vector", "ring_vector"))
         /\ Lt0(Cos(l, "index_vector", "pinky_vector"))

RuleOrder == <<"DRAW", "SHAPE_LAUNCH", "SCREENSHOT", "HOVER", "ERASE", "MOVE", "MATH_LAUNCH">>

FirstMatch(l, t) ==
  IF \E i \in 1..Len(RuleOrder) : RuleHolds(RuleOrder[i], l, t)
  THEN RuleOrder[CHOOSE i \in 1..Len(RuleOrder) :
                    /\ RuleHolds(RuleOrder[i], l, t)
                    /\ \A j \in 1..(i - 1) : ~RuleHolds(RuleOrder[j], l, t)]
  ELSE "HOVER"

\* C1: on a 21-entry list with debug off, detect_gesture returns the label of
\* the first rule that holds, in the order DRAW, SHAPE_LAUNCH, SCREENSHOT,
\* HOVER, ERASE, MOVE, MATH_LAUNCH, and HOVER when none holds.
C1_FirstMatchWins ==
  (Called /\ ~debug /\ Len(landmarks) = 21)
     => ret = Label(FirstMatch(landmarks, threshhold))

\* C1's case: SHAPE_LAUNCH returned for a hand that also satisfies ERASE
C1_Witness ==
  /\ Called /\ ~debug /\ Len(landmarks) = 21
  /\ RuleHolds("SHAPE_LAUNCH", landmarks, threshhold)
  /\ RuleHolds("ERASE", landmarks, threshhold)
  /\ ret = Label("SHAPE_LAUNCH")

\* the difference of two landmarks' (x,y) only
XYVector(l, a, b) == <<At(l, b)[2] - At(l, a)[2], At(l, b)[3] - At(l, a)[3]>>

\* C2: if, on (x,y) vectors, the index extension vector has cosine < 0 with the
\* middle, ring and pinky extension vectors and the cosine of the palm-index
\* vector with the index extension vector is above the threshold, the call
\* returns DRAW.
C2_DrawOnXYVectors ==
  (/\ Called /\ ~debug /\ Len(landmarks) = 21
   /\ Lt0(cos_angle(XYVector(landmarks, 6, 8), XYVector(landmarks, 10, 12)))
   /\ Lt0(cos_angle(XYVector(landmarks, 6, 8), XYVector(landmarks, 14, 16)))
   /\ Lt0(cos_angle(XYVector(landmarks, 6, 8), XYVector(landmarks, 18, 20)))
   /\ Gt(cos_angle(XYVector(landmarks, 0, 5), XYVector(landmarks, 6, 8)), threshhold))
     => ret = Label("DRAW")

\* C7: a call on a non-empty list whose length is not 21 raises and returns
\* no label.
C7_WrongLengthFails ==
  (Called /\ Len(landmarks) # 0 /\ Len(landmarks) # 21) => ret.kind = "raise"

\* the pairs of landmarks whose difference detect_gesture takes
VectorEnds == { <<0, 5>>, <<0, 9>>, <<0, 13>>, <<0, 17>>, <<0, 4>>,
                <<6, 8>>, <<10, 12>>, <<14, 16>>, <<18, 20>>, <<1, 4>> }

\* some cosine of the call has a zero magnitude under it
UndefinedCosine(l) ==
  \E a \in DOMAIN Vectors(l), b \in DOMAIN Vectors(l) : IsNan(Cos(l, a, b))

\* C10: when coincident landmarks make a finger or palm vector zero-length in
\* (x,y), the cosine computation of the call divides by a zero magnitude.
C10_ZeroVectorDividesByZero ==
  (/\ Called /\ Len(landmarks) = 21
   /\ \E e \in VectorEnds : XYVector(landmarks, e[1], e[2]) = <<0, 0>>)
     => UndefinedCosine(landmarks)

(***************************************************************************)
(* Properties of KalmanFilter.predict (checked under SpecFilter)           *)
(***************************************************************************)

Abs(a) == IF a >= 0 THEN a ELSE -a

\* C8, as claimed: from the fifth consecutive call on, the returned point is
\* within 1 pixel of the constant point in each coordinate.
C8_WithinOnePixelFromFifthCall ==
  calls >= 5 => \A i \in 1..2 : Abs(predicted[i] - point[i]) <= 1

\* C8, amended: the first call returns (0, 0); from the 17th consecutive call
\* on, each returned coordinate is within 1 pixel plus 1 percent of the
\* (non-negative) input coordinate, and within 1 pixel for inputs up to 100.
C8_SettlesFromCall17 ==
  /\ calls = 1 => predicted = <<0, 0>>
  /\ calls >= 17 =>
       \A i \in 1..2 :
         /\ 100 * Abs(predicted[i] - point[i]) <= 100 + point[i]
         /\ point[i] <= 100 => Abs(predicted[i] - point[i]) <= 1

\* C8's case: seventeen calls or more on a point far from the origin
C8_Witness ==
  /\ calls >= 17
  /\ point = <<100, 640>>
  /\ predicted[1] \in 99..101

(***************************************************************************)
(* Properties of determine_gesture (checked under Spec)                    *)
(***************************************************************************)

IsHandFrame(f) == f.detected /\ Len(f.landmark_list) # 0
IsNoHandFrame(f) == f.detected /\ Len(f.landmark_list) = 0

\* the label detect_gesture gives a frame's landmark list
Classified(f) == detect_gesture(f.landmark_list, DefaultThreshhold, FALSE).label

\* the frames before frame n in which a hand was present
HandFramesBefore(n) == {j \in 1..(n - 1) : IsHandFrame(frames[j])}

Max(S) == CHOOSE m \in S : \A k \in S : k <= m

\* x and y of landmark 8 of frame j
TipX(j) == At(frames[j].landmark_list, 8)[2]
TipY(j) == At(frames[j].landmark_list, 8)[3]

\* the last call was on a frame with a hand that is classified MOVE
LastIsMove ==
  /\ Len(frames) > 0
  /\ IsHandFrame(frames[Len(frames)])
  /\ Classified(frames[Len(frames)]) = "MOVE"

\* C3: for a frame classified MOVE with a previous position stored, the shift
\* is (y - y_previous, x - x_previous), previous being the index fingertip of
\* the most recent earlier frame with a hand, whatever its gesture.
C3_ShiftIsRowColDifference ==
  (LastIsMove /\ HandFramesBefore(Len(frames)) # {}) =>
     LET n == Len(frames)
         j == Max(HandFramesBefore(n))
     IN /\ outcome = "returned"
        /\ "shift" \in DOMAIN post
        /\ post.shift = <<TipY(n) - TipY(j), TipX(n) - TipX(j)>>

\* C3's case: previous (x=100, y=100), current (x=110, y=95), shift (-5, 10)
C3_Witness ==
  /\ LastIsMove /\ HandFramesBefore(Len(frames)) # {}
  /\ LET n == Len(frames)
         j == Max(HandFramesBefore(n))
     IN /\ Classified(frames[j]) # "MOVE"
        /\ <<TipX(j), TipY(j)>> = <<100, 100>>
        /\ <<TipX(n), TipY(n)>> = <<110, 95>>
  /\ post.shift = <<-5, 10>>

\* C4: when the first frame with a hand is classified MOVE, the call returns
\* and the shift is (0, 0).
C4_FirstMoveShiftZero ==
  (LastIsMove /\ HandFramesBefore(Len(frames)) = {}) =>
     /\ outcome = "returned"
     /\ "shift" \in DOMAIN post
     /\ post.shift = <<0, 0>>

\* C4's case: the first hand ever seen makes the MOVE gesture
C4_Witness ==
  /\ LastIsMove /\ HandFramesBefore(Len(frames)) = {}
  /\ outcome = "returned"
  /\ post.gesture = "MOVE"
  /\ prev_position = <<TipY(Len(frames)), TipX(Len(frames))>>

\* C5: a frame with no hand detected returns the empty result without
\* raising, and leaves the Kalman filter and prev_position as they were.
C5_NoHandFrameLeavesState ==
  [][ (frames' # frames /\ IsNoHandFrame(frames'[Len(frames')])) =>
        /\ outcome' = "returned"
        /\ DOMAIN post' = {}
        /\ kf' = kf
        /\ prev_position' = prev_position ]_vars

\* C5's case: a frame without a hand after the filter and prev_position were set
C5_Witness ==
  /\ Len(frames) > 1
  /\ IsNoHandFrame(frames[Len(frames)])
  /\ IsHandFrame(frames[Len(frames) - 1])
  /\ kf # NewKalmanFilter
  /\ prev_position # None
  /\ outcome = "returned"
  /\ DOMAIN post = {}

\* C6: an event carries mid_fing_tip and idx_mid_radius exactly when its
\* gesture is ERASE; then mid_fing_tip is landmark 12 and the radius is the
\* Euclidean distance of landmarks 8 and 12 in (x,y): (50,50) and (53,54)
\* give 5. Every event carries landmark 8 as idx_fing_tip.
C6_EraseFields ==
  (Len(frames) > 0 /\ IsHandFrame(frames[Len(frames)]) /\ outcome = "returned") =>
     LET l == frames[Len(frames)].landmark_list
         dx == At(l, 8)[2] - At(l, 12)[2]
         dy == At(l, 8)[3] - At(l, 12)[3]
     IN /\ post.gesture = Classified(frames[Len(frames)])
        /\ post.idx_fing_tip = At(l, 8)
        /\ "mid_fing_tip" \in DOMAIN post <=> post.gesture = "ERASE"
        /\ "idx_mid_radius" \in DOMAIN post <=> post.gesture = "ERASE"
        /\ post.gesture = "ERASE" =>
             /\ post.mid_fing_tip = At(l, 12)
             /\ post.idx_mid_radius.root_of = dx * dx + dy * dy
             /\ (<<At(l, 8)[2], At(l, 8)[3]>> = <<50, 50>>
                   /\ <<At(l, 12)[2], At(l, 12)[3]>> = <<53, 54>>)
                  => post.idx_mid_radius.root_of = 5 * 5

\* C6's case: ERASE with the index tip at (50,50) and the middle tip at (53,54)
C6_Witness ==
  /\ Len(frames) > 0 /\ IsHandFrame(frames[Len(frames)]) /\ outcome = "returned"
  /\ post.gesture = "ERASE"
  /\ post.idx_fing_tip = <<8, 50, 50>>
  /\ post.mid_fing_tip = <<12, 53, 54>>
  /\ post.idx_mid_radius.root_of = 25

\* the last call saw a hand classified MOVE, right after one or more frames
\* without a hand that followed a frame with a hand
MoveAfterAbsence ==
  /\ LastIsMove
  /\ Len(frames) > 2
  /\ IsNoHandFrame(frames[Len(frames) - 1])
  /\ HandFramesBefore(Len(frames)) # {}

\* C9: prev_position is never reset once set; frames without a hand leave it
\* unchanged, and when the hand reappears in a MOVE frame the shift is the
\* current index fingertip minus that of the last frame before the absence.
C9_CarryOver ==
  /\ [][ /\ prev_position # None => prev_position' # None
         /\ (frames' # frames /\ IsNoHandFrame(frames'[Len(frames')]))
              => prev_position' = prev_position ]_vars
  /\ [](MoveAfterAbsence =>
          LET n == Len(frames)
              j == Max(HandFramesBefore(n))
          IN /\ "shift" \in DOMAIN post
             /\ post.shift = <<TipY(n) - TipY(j), TipX(n) - TipX(j)>>)

\* C9's case: the hand comes back elsewhere, and the shift is not (0, 0)
C9_Witness ==
  /\ MoveAfterAbsence
  /\ post.shift # <<0, 0>>
  /\ post.shift = <<TipY(Len(frames)) - TipY(Max(HandFramesBefore(Len(frames)))),
                    TipX(Len(frames)) - TipX(Max(HandFramesBefore(Len(frames))))>>

====
